---- MODULE Spec2Model ----
(***************************************************************************)
(* Delta-based reconciliation of the resources owned by an                 *)
(* InferenceService: the AuthConfig kept by KserveAuthConfigReconciler and *)
(* the "<name>-metrics-dashboard" ConfigMap kept by                        *)
(* KserveMetricsDashboardReconciler.  A pass is build desired -> fetch     *)
(* existing -> compute delta -> apply; every store call is one atomic      *)
(* step, so that external writers and other passes interleave between the  *)
(* steps of a pass.  KserveMonitoringReconciler, which keeps the           *)
(* PeerAuthentication and the NetworkPolicy of a namespace, is modelled     *)
(* with its own steps.                                                     *)
(***************************************************************************)
EXTENDS Integers, Sequences, FiniteSets, TLC

(* ------------------------------ bounds --------------------------------- *)
\* number of resource versions the store hands out in one behaviour
MaxRV == 4

(* --------------------------- the parent -------------------------------- *)
IsvcName == "isvc"
IsvcNamespace == "ns"
\* isvc.Status.URL: not set yet, or one of two URLs
NoURL == "nil"
URLs == {"u1", "u2"}
\* the runtime image name the InferenceService's ServingRuntime resolves to
Runtimes == {"ovms", "sklearn"}
SupportedRuntimes == {"tgis", "ovms", "vllm"}

(* ------------------------------ errors --------------------------------- *)
NoErr == [cause |-> "nil", msg |-> ""]
StoreErr(c) == [cause |-> c, msg |-> ""]
\* failures the store may inject into any call (network, permission, ...)
Fails == {NoErr, StoreErr("Transient")}

\* errors.Wrapf: nil stays nil, any other error becomes a new error value
\* that carries the message and keeps the original as its cause
Wrapf(err, msg) == IF err = NoErr THEN NoErr ELSE [cause |-> err.cause, msg |-> msg]

IsNotFound(err) == err.cause = "NotFound"

(* ----------------------------- resources ------------------------------- *)
AuthConfigKind == "AuthConfig"
ConfigMapKind == "ConfigMap"
Kinds == {AuthConfigKind, ConfigMapKind}
ConfigMapNameSuffix == "-metrics-dashboard"
Names == {IsvcName, IsvcName \o ConfigMapNameSuffix}
Keys == Kinds \X Names \X {IsvcNamespace}

\* an absent (nil) resource
NoRes == [present |-> FALSE]
KeyOf(obj) == <<obj.kind, obj.name, obj.namespace>>

AuthorizationGroupLabel == <<"security.opendatahub.io/authorization-group", "default">>
\* what an actor outside the reconcilers writes
ExtLabel == <<"ext", "x">>
ExtPayload == <<"ext">>

VARIABLES
  isvc,          \* the parent InferenceService: [url, runtime, format, deleted]
  store,         \* the object store: key -> resource or NoRes
  nextRV,        \* the next resource version the store assigns
  templateCache, \* ovmsData / tgisData / vllmData: lazily loaded template bytes
  fileReadable,  \* whether the template files can be read from the working directory
  pass,          \* the passes in flight: position and locals of each
  reconciler,    \* the sub-resource reconciler this behaviour runs; the
                 \* reconcilers share nothing but the parent they read
  stable         \* per kind: "no", or how the last undisturbed successful pass ended

vars == <<isvc, store, nextRV, templateCache, fileReadable, pass, reconciler, stable>>

\* the pass slots: the orchestrator serializes the passes of one parent, so
\* a behaviour of Spec has one slot
Passes == DOMAIN pass


(* ------------------------- the delta processor ------------------------- *)
NoDelta == [computed |-> FALSE]

\* comparators.GetAuthConfigComparator: the fields the reconciler owns
AuthConfigComparator(deployed, requested) ==
  deployed.payload = requested.payload /\ deployed.labels = requested.labels

\* comparators.GetConfigMapComparator: the fields the reconciler owns
ConfigMapComparator(deployed, requested) ==
  deployed.payload = requested.payload /\ deployed.labels = requested.labels

Comparator(kind, deployed, requested) ==
  IF kind = AuthConfigKind THEN AuthConfigComparator(deployed, requested)
                           ELSE ConfigMapComparator(deployed, requested)

\* processors.DeltaProcessor.ComputeDelta, by the case table
ComputeDelta(kind, desired, existing) ==
  LET added == desired.present /\ ~existing.present
      removed == ~desired.present /\ existing.present
      updated == desired.present /\ existing.present
                 /\ ~Comparator(kind, existing, desired)
  IN [computed |-> TRUE, Added |-> added, Updated |-> updated, Removed |-> removed]

\* ComputeDelta hands the two resources to the comparator in the one row of
\* the case table that needs it
ComparatorCalls(desired, existing) ==
  IF desired.present /\ existing.present
    THEN <<[fn |-> "Comparator", nilDesired |-> FALSE, nilExisting |-> FALSE]>>
    ELSE <<>>

HasChanges(delta) == delta.Added \/ delta.Updated \/ delta.Removed
IsAdded(delta) == delta.Added
IsUpdated(delta) == delta.Updated
IsRemoved(delta) == delta.Removed

(* ------------------------------ the store ------------------------------ *)
\* client.Get
ClientGet(st, key, fail) ==
  IF fail # NoErr THEN [obj |-> NoRes, err |-> fail]
  ELSE IF key \notin DOMAIN st \/ ~st[key].present
    THEN [obj |-> NoRes, err |-> StoreErr("NotFound")]
  ELSE [obj |-> st[key], err |-> NoErr]

\* a Create that replaces what is there
ClientCreateOrReplace(st, rv, obj, fail) ==
  IF fail # NoErr THEN [err |-> fail, store |-> st]
  ELSE [err |-> NoErr, store |-> [st EXCEPT ![KeyOf(obj)] = [obj EXCEPT !.rv = rv]]]

\* client.Create
ClientCreate(st, rv, obj, fail) ==
  IF fail # NoErr THEN [err |-> fail, store |-> st]
  ELSE IF st[KeyOf(obj)].present THEN [err |-> StoreErr("AlreadyExists"), store |-> st]
  ELSE [err |-> NoErr, store |-> [st EXCEPT ![KeyOf(obj)] = [obj EXCEPT !.rv = rv]]]

\* client.Update: optimistic concurrency on the resource version the object
\* carries; an object that carries none (0) is written unconditionally
ClientUpdate(st, rv, obj, fail) ==
  IF fail # NoErr THEN [err |-> fail, store |-> st]
  ELSE IF ~st[KeyOf(obj)].present THEN [err |-> StoreErr("NotFound"), store |-> st]
  ELSE IF obj.rv # 0 /\ st[KeyOf(obj)].rv # obj.rv
    THEN [err |-> StoreErr("Conflict"), store |-> st]
  ELSE [err |-> NoErr, store |-> [st EXCEPT ![KeyOf(obj)] = [obj EXCEPT !.rv = rv]]]

\* client.Delete: keyed by name and namespace only
ClientDelete(st, key, fail) ==
  IF fail # NoErr THEN [err |-> fail, store |-> st]
  ELSE IF key \notin DOMAIN st \/ ~st[key].present
    THEN [err |-> StoreErr("NotFound"), store |-> st]
  ELSE [err |-> NoErr, store |-> [st EXCEPT ![key] = NoRes]]

\* resources.AuthConfigStore: Get, Create, Update and Remove hand the call
\* to the client and its error back
StoreGet(st, key, fail) == ClientGet(st, key, fail)
StoreCreate(st, rv, obj, fail) == ClientCreate(st, rv, obj, fail)
StoreUpdate(st, rv, obj, fail) == ClientUpdate(st, rv, obj, fail)
StoreRemove(st, key, fail) == ClientDelete(st, key, fail)

(* ------------------- KserveAuthConfigReconciler ------------------------ *)
\* resources.InferenceServiceHostExtractor.Extract: the hosts of the URL
Extract(svc) == svc.url

\* createDesiredResource returning nil, nil when the template cannot be loaded
AuthCreateDesiredResourceNilOnLoadErr(svc, aux, ownerOK) ==
  IF aux = "detectErr"
    THEN [res |-> NoRes, err |-> Wrapf(StoreErr("Aux"), "could not detect AuthType")]
  ELSE IF aux = "loadErr"
    THEN [res |-> NoRes, err |-> NoErr]
  ELSE [res |-> [present |-> TRUE, kind |-> AuthConfigKind,
                 name |-> IsvcName, namespace |-> IsvcNamespace,
                 payload |-> <<"template", Extract(svc)>>,
                 labels |-> {AuthorizationGroupLabel},
                 rv |-> 0, owner |-> ownerOK, other |-> 0],
        err |-> NoErr]

\* createDesiredResource: detect the auth type, load its template, stamp
\* name, namespace, hosts and the authorization-group label; the result of
\* SetControllerReference is not looked at
AuthCreateDesiredResource(svc, aux, ownerOK) ==
  IF aux = "detectErr"
    THEN [res |-> NoRes, err |-> Wrapf(StoreErr("Aux"), "could not detect AuthType")]
  ELSE IF aux = "loadErr"
    THEN [res |-> NoRes, err |-> Wrapf(StoreErr("Aux"), "could not load template")]
  ELSE [res |-> [present |-> TRUE, kind |-> AuthConfigKind,
                 name |-> IsvcName, namespace |-> IsvcNamespace,
                 payload |-> <<"template", Extract(svc)>>,
                 labels |-> {AuthorizationGroupLabel},
                 rv |-> 0, owner |-> ownerOK, other |-> 0],
        err |-> NoErr]

AuthExistingKey == <<AuthConfigKind, IsvcName, IsvcNamespace>>

\* processDelta with the two sides handed over in the wrong order
AuthDeltaSwapped(desired, existing) == ComputeDelta(AuthConfigKind, existing, desired)

\* processDelta: delta := r.deltaProcessor.ComputeDelta(comparator, desiredState, existingState)
AuthDelta(desired, existing) == ComputeDelta(AuthConfigKind, desired, existing)

\* the remove branch with name and namespace mixed up
AuthRemoveKeySwapped(existing) == <<AuthConfigKind, existing.namespace, existing.name>>

\* processDelta, remove branch: types.NamespacedName{Namespace: existingState.Namespace, Name: existingState.Name}
AuthRemoveKey(existing) == <<AuthConfigKind, existing.name, existing.namespace>>

\* the update branch without the DeepCopy: rp aliases existingState
AuthUpdateObjectInPlace(existing, desired) ==
  LET rp == [existing EXCEPT !.payload = desired.payload, !.labels = desired.labels]
  IN [rp |-> rp, existing |-> rp]

\* the update branch sending the desired object itself
AuthUpdateObjectDesired(existing, desired) ==
  [rp |-> desired, existing |-> existing]

\* processDelta, update branch: rp := existingState.DeepCopy();
\* rp.Spec = desiredState.Spec; rp.Labels = desiredState.Labels
AuthUpdateObject(existing, desired) ==
  [rp |-> [existing EXCEPT !.payload = desired.payload, !.labels = desired.labels],
   existing |-> existing]

\* processDelta without its update branch
AuthPlanNoUpdate(delta) ==
  IF ~HasChanges(delta) THEN <<>>
  ELSE IF IsAdded(delta) THEN <<"Create">>
  ELSE IF IsRemoved(delta) THEN <<"Delete">>
  ELSE <<>>

\* processDelta without the early return on no change
AuthPlanNoEarlyReturn(delta) ==
  IF IsAdded(delta) THEN <<"Create">>
  ELSE IF IsRemoved(delta) THEN <<"Delete">>
  ELSE <<"Update">>

\* processDelta: the first branch that matches returns
AuthPlan(delta) ==
  IF ~HasChanges(delta) THEN <<>>
  ELSE IF IsAdded(delta) THEN <<"Create">>
  ELSE IF IsUpdated(delta) THEN <<"Update">>
  ELSE IF IsRemoved(delta) THEN <<"Delete">>
  ELSE <<>>

\* the error processDelta returns for a store call: errors.Wrapf around it
AuthReturnedError(op, err, desired, existing) ==
  IF op = "Delete" THEN Wrapf(err, "could not remove AuthConfig " \o existing.name)
                   ELSE Wrapf(err, "could not store AuthConfig " \o desired.name)

(* ----------------- KserveMetricsDashboardReconciler -------------------- *)
\* the image of the ServingRuntime the InferenceService names
RuntimeImage(rt) == [hasPath |-> TRUE, name |-> rt, hasTag |-> TRUE]

\* regexp `.*/(.+?)(:|@).*`: the last path element up to the tag or digest
extractImageName(image) ==
  IF image.hasPath /\ image.hasTag THEN image.name ELSE ""

\* the content of <runtime>-metrics.json
TemplateFile(rt) == <<rt \o "-metrics.json", "${namespace}", "${model_name}">>

\* the substitution that leaves ${model_name} in place
substituteNamespaceOnly(data, namespace, name) ==
  [i \in 1..Len(data) |-> IF data[i] = "${namespace}" THEN namespace ELSE data[i]]

\* strings.Replace of ${namespace} and ${model_name}
substituteVariablesInQueries(data, namespace, name) ==
  [i \in 1..Len(data) |->
     IF data[i] = "${namespace}" THEN namespace
     ELSE IF data[i] = "${model_name}" THEN name
     ELSE data[i]]

\* the template cache after the switch on the runtime image name
LoadTemplate(cache, imageName, readable) ==
  IF imageName \in SupportedRuntimes /\ cache[imageName] = <<>> /\ readable
    THEN [cache EXCEPT ![imageName] = TemplateFile(imageName)]
    ELSE cache

\* the switch on the runtime image name with the default falling into ovms
templatedDataDefaultOvms(cache, imageName) ==
  IF imageName \in SupportedRuntimes THEN cache[imageName] ELSE TemplateFile("ovms")

\* createDesiredResource: the switch on the runtime image name leaves
\* templatedData nil for an image that is none of tgis, ovms, vllm
templatedData(cache, imageName) ==
  IF imageName \in SupportedRuntimes THEN cache[imageName] ELSE <<>>

\* the ConfigMap without the owner reference
MetricsConfigMapNoOwner(data) ==
  [present |-> TRUE, kind |-> ConfigMapKind,
   name |-> IsvcName \o ConfigMapNameSuffix, namespace |-> IsvcNamespace,
   payload |-> <<"Data">> \o data, labels |-> {},
   rv |-> 0, owner |-> FALSE, other |-> 0]

\* createDesiredResource: the ConfigMap literal, after
\* ctrl.SetControllerReference(isvc, configMap, r.client.Scheme()) succeeded
MetricsConfigMap(data) ==
  [present |-> TRUE, kind |-> ConfigMapKind,
   name |-> IsvcName \o ConfigMapNameSuffix, namespace |-> IsvcNamespace,
   payload |-> <<"Data">> \o data, labels |-> {},
   rv |-> 0, owner |-> TRUE, other |-> 0]

\* createDesiredResource: look up the runtime, pick the template of its
\* image, substitute, build the ConfigMap and set the owner reference
MetricsCreateDesiredResource(svc, cache, readable, getOK, ownerOK) ==
  IF svc.runtime = "nil" \/ ~getOK
    THEN [panic |-> TRUE, res |-> NoRes, err |-> NoErr, cache |-> cache]
  ELSE
    LET runtimeImageName == extractImageName(RuntimeImage(svc.runtime))
        cache2 == LoadTemplate(cache, runtimeImageName, readable)
        data == substituteVariablesInQueries(templatedData(cache2, runtimeImageName),
                                             IsvcNamespace, IsvcName)
    IN IF ~ownerOK
         THEN [panic |-> FALSE, res |-> NoRes, err |-> StoreErr("OwnerRef"), cache |-> cache2]
         ELSE [panic |-> FALSE, res |-> MetricsConfigMap(data),
               err |-> NoErr, cache |-> cache2]

\* getExistingResource reading under the name of the InferenceService
MetricsExistingKeyNoSuffix == <<ConfigMapKind, IsvcName, IsvcNamespace>>

MetricsExistingKey == <<ConfigMapKind, IsvcName \o ConfigMapNameSuffix, IsvcNamespace>>

\* processDelta: delta := r.deltaProcessor.ComputeDelta(comparator, desiredResource, existingResource)
MetricsDelta(desired, existing) == ComputeDelta(ConfigMapKind, desired, existing)

\* processDelta, remove block: r.client.Delete(ctx, existingResource)
MetricsDeleteKey(existing) == <<ConfigMapKind, existing.name, existing.namespace>>

\* the update branch forgetting the data
MetricsUpdateObjectNoData(existing, desired) ==
  [rp |-> [existing EXCEPT !.labels = desired.labels], existing |-> existing]

\* the update branch sending the desired ConfigMap itself, which carries no
\* resource version
MetricsUpdateObjectDesired(existing, desired) ==
  [rp |-> desired, existing |-> existing]

\* processDelta, update branch: rp := existingResource.DeepCopy();
\* rp.Labels = desiredResource.Labels; rp.Data = desiredResource.Data
MetricsUpdateObject(existing, desired) ==
  [rp |-> [existing EXCEPT !.labels = desired.labels, !.payload = desired.payload],
   existing |-> existing]

\* processDelta whose delete block runs on anything but an add
MetricsPlanDeleteUnlessAdded(delta) ==
  IF ~HasChanges(delta) THEN <<>>
  ELSE (IF IsAdded(delta) THEN <<"Create">> ELSE <<>>)
       \o (IF IsUpdated(delta) THEN <<"Update">> ELSE <<>>)
       \o (IF ~IsAdded(delta) THEN <<"Delete">> ELSE <<>>)

\* processDelta: three if-blocks in sequence, each returning only on error
MetricsPlan(delta) ==
  IF ~HasChanges(delta) THEN <<>>
  ELSE (IF IsAdded(delta) THEN <<"Create">> ELSE <<>>)
       \o (IF IsUpdated(delta) THEN <<"Update">> ELSE <<>>)
       \o (IF IsRemoved(delta) THEN <<"Delete">> ELSE <<>>)

\* getExistingResource: the store's answer, not-found included
AuthGetExistingResource(st, fail) == StoreGet(st, AuthExistingKey, fail)

\* Reconcile that gives up on any read error, not-found included
AuthFetchAbortsOnAny(err) == err # NoErr

\* Reconcile that never gives up on a read error
AuthFetchAbortsNever(err) == FALSE

\* Reconcile: if err != nil && !k8serror.IsNotFound(err) { return err }
AuthFetchAborts(err) == err # NoErr /\ ~IsNotFound(err)

\* getExistingResource: not-found becomes (nil, nil)
MetricsGetExistingResource(st, fail) ==
  LET r == ClientGet(st, MetricsExistingKey, fail)
  IN IF r.err # NoErr /\ IsNotFound(r.err) THEN [obj |-> NoRes, err |-> NoErr] ELSE r

\* Reconcile: if err != nil { return err }
MetricsFetchAborts(err) == err # NoErr

(* ------------------------------ passes --------------------------------- *)
IdlePass ==
  [kind |-> "none", pc |-> "idle", desired |-> NoRes, existing |-> NoRes,
   fetched |-> NoRes, delta |-> NoDelta, plan |-> <<>>, err |-> NoErr,
   fetchErr |-> NoErr, calls |-> <<>>, undist |-> FALSE, replay |-> "no",
   queued |-> FALSE, compared |-> <<>>, mode |-> "", read |-> FALSE,
   gets |-> <<>>]

\* the pass returned the error of a store call; every error a monitoring
\* pass returns is one
StoreCallFailed(rec) ==
  /\ rec.pc \in {"done", "removed"}
  /\ rec.err # NoErr
  /\ rec.calls # <<>> \/ rec.fetchErr # NoErr \/ rec.kind = "Monitoring"

\* the InferenceServices the user may have written; format is
\* Spec.Predictor.Model.ModelFormat.Name, deleted is set once it is gone,
\* annotations is the map of its annotations
ParentStates ==
  { [url |-> NoURL, runtime |-> "ovms", format |-> "caikit", deleted |-> FALSE,
      annotations |-> <<>>],
    [url |-> "u1", runtime |-> "ovms", format |-> "caikit", deleted |-> FALSE,
      annotations |-> <<>>],
    [url |-> "u2", runtime |-> "sklearn", format |-> "sklearn", deleted |-> FALSE,
      annotations |-> <<>>],
    [url |-> "u1", runtime |-> "nil", format |-> "sklearn", deleted |-> FALSE,
      annotations |-> <<>>] }

\* the monitoring reconciler and the kinds it creates
MonitoringKind == "Monitoring"
PeerAuthKind == "PeerAuthentication"
NetworkPolicyKind == "NetworkPolicy"

\* a pass other than me that works on kind k has seen the state move under it
Disturbed(ps, k, me) ==
  [q \in Passes |->
     IF /\ q # me
        /\ \/ ps[q].kind = k
           \/ ps[q].kind = MonitoringKind /\ k \in {PeerAuthKind, NetworkPolicyKind}
       THEN [ps[q] EXCEPT !.undist = FALSE, !.replay = "no"] ELSE ps[q]]

\* what an undisturbed pass that returned nil after its delta leaves behind
Settle(cur, rec) ==
  IF rec.err = NoErr /\ rec.delta.computed /\ rec.undist
    THEN IF rec.calls # <<>> THEN "applied"
         ELSE IF rec.replay # "no" THEN rec.replay ELSE "noop"
    ELSE cur

Init ==
  /\ isvc \in ParentStates
  /\ store = [key \in Keys |-> NoRes]
  /\ nextRV = 1
  /\ templateCache = [rt \in SupportedRuntimes |-> <<>>]
  /\ pass = [p \in {1} |-> IdlePass]
  /\ reconciler \in Kinds
  /\ fileReadable \in (IF reconciler = ConfigMapKind THEN BOOLEAN ELSE {TRUE})
  /\ stable = [k \in Kinds |-> "no"]

\* the check with the URL taken for set
URLNotReadyNever(svc) == FALSE

\* Reconcile: if isvc.Status.URL == nil
URLNotReady(svc) == svc.url = NoURL

\* KserveAuthConfigReconciler.Reconcile up to the built desired resource
AuthReconcileStart(p) ==
  /\ reconciler = AuthConfigKind
  /\ ~isvc.deleted
  /\ pass[p].pc = "idle"
  /\ \E aux \in {"ok", "detectErr", "loadErr"}, ownerOK \in BOOLEAN :
       LET base == [IdlePass EXCEPT !.kind = AuthConfigKind, !.undist = TRUE,
                                    !.replay = stable[AuthConfigKind],
                                    !.queued = pass[p].queued]
           r == AuthCreateDesiredResource(isvc, aux, ownerOK)
       IN pass' = [pass EXCEPT ![p] =
                     IF URLNotReady(isvc) THEN [base EXCEPT !.pc = "done"]
                     ELSE IF r.err # NoErr THEN [base EXCEPT !.pc = "done", !.err = r.err]
                     ELSE [base EXCEPT !.pc = "built", !.desired = r.res]]
  /\ UNCHANGED <<isvc, store, nextRV, templateCache, fileReadable, reconciler, stable>>

\* KserveMetricsDashboardReconciler.Reconcile up to the built desired resource
MetricsReconcileStart(p) ==
  /\ reconciler = ConfigMapKind
  /\ ~isvc.deleted
  /\ pass[p].pc = "idle"
  /\ \E getOK \in BOOLEAN, ownerOK \in BOOLEAN :
       LET base == [IdlePass EXCEPT !.kind = ConfigMapKind, !.undist = TRUE,
                                    !.replay = stable[ConfigMapKind],
                                    !.queued = pass[p].queued]
           r == MetricsCreateDesiredResource(isvc, templateCache, fileReadable, getOK, ownerOK)
       IN /\ pass' = [pass EXCEPT ![p] =
                        IF r.panic THEN [base EXCEPT !.pc = "panicked"]
                        ELSE IF r.err # NoErr THEN [base EXCEPT !.pc = "done", !.err = r.err]
                        ELSE [base EXCEPT !.pc = "built", !.desired = r.res]]
          /\ templateCache' = r.cache
  /\ UNCHANGED <<isvc, store, nextRV, fileReadable, reconciler, stable>>

\* Reconcile: get the existing resource, return on a read error
Fetch(p) ==
  /\ pass[p].pc = "built"
  /\ \E fail \in Fails :
       LET auth == pass[p].kind = AuthConfigKind
           r == IF auth THEN AuthGetExistingResource(store, fail)
                        ELSE MetricsGetExistingResource(store, fail)
           aborts == IF auth THEN AuthFetchAborts(r.err) ELSE MetricsFetchAborts(r.err)
           \* what the store itself answered, for the record
           raw == ClientGet(store, IF auth THEN AuthExistingKey ELSE MetricsExistingKey, fail).err
       IN pass' = [pass EXCEPT ![p] =
                     IF aborts THEN [@ EXCEPT !.pc = "done", !.err = r.err, !.fetchErr = raw]
                     ELSE [@ EXCEPT !.pc = "fetched", !.existing = r.obj,
                                    !.fetched = r.obj, !.fetchErr = raw]]
  /\ UNCHANGED <<isvc, store, nextRV, templateCache, fileReadable, reconciler, stable>>

\* processDelta up to its first store call: compute the delta, return nil
\* when there is no change
ProcessDelta(p) ==
  /\ pass[p].pc = "fetched"
  /\ LET k == pass[p].kind
         delta == IF k = AuthConfigKind
                    THEN AuthDelta(pass[p].desired, pass[p].existing)
                    ELSE MetricsDelta(pass[p].desired, pass[p].existing)
         plan == IF k = AuthConfigKind THEN AuthPlan(delta) ELSE MetricsPlan(delta)
         rec == [pass[p] EXCEPT !.delta = delta, !.plan = plan,
                                !.compared = ComparatorCalls(pass[p].desired, pass[p].existing),
                                !.pc = IF plan = <<>> THEN "done" ELSE "applying"]
     IN /\ pass' = [pass EXCEPT ![p] = rec]
        /\ stable' = IF plan = <<>> THEN [stable EXCEPT ![k] = Settle(@, rec)] ELSE stable
  /\ UNCHANGED <<isvc, store, nextRV, templateCache, fileReadable, reconciler>>

\* the error the metrics processDelta returns for a failed store call
MetricsReturnedErrorNil(err) == NoErr

\* processDelta: if err = r.client.X(...); err != nil { return }
MetricsReturnedError(err) == err

\* processDelta, one store call: the next block of the plan.  A block that
\* needs the absent side of the delta dereferences nil.
Apply(p) ==
  /\ pass[p].pc = "applying"
  /\ pass[p].plan # <<>>
  /\ nextRV <= MaxRV
  /\ LET k == pass[p].kind
         auth == k = AuthConfigKind
         op == Head(pass[p].plan)
         d == pass[p].desired
         e == pass[p].existing
         nilArg == \/ op = "Create" /\ ~d.present
                   \/ op = "Update" /\ (~d.present \/ ~e.present)
                   \/ op = "Delete" /\ ~e.present
     IN IF nilArg
          THEN /\ pass' = [pass EXCEPT ![p] = [@ EXCEPT !.pc = "panicked"]]
               /\ UNCHANGED <<store, nextRV, stable>>
          ELSE \E fail \in Fails :
            LET upd == IF op = "Update"
                         THEN IF auth THEN AuthUpdateObject(e, d)
                                      ELSE MetricsUpdateObject(e, d)
                         ELSE [rp |-> NoRes, existing |-> e]
                obj == IF op = "Create" THEN d
                       ELSE IF op = "Update" THEN upd.rp ELSE NoRes
                key == IF op # "Delete" THEN KeyOf(obj)
                       ELSE IF auth THEN AuthRemoveKey(e) ELSE MetricsDeleteKey(e)
                r == IF auth
                       THEN IF op = "Create" THEN StoreCreate(store, nextRV, obj, fail)
                            ELSE IF op = "Update" THEN StoreUpdate(store, nextRV, obj, fail)
                            ELSE StoreRemove(store, key, fail)
                       ELSE IF op = "Create" THEN ClientCreate(store, nextRV, obj, fail)
                            ELSE IF op = "Update" THEN ClientUpdate(store, nextRV, obj, fail)
                            ELSE ClientDelete(store, key, fail)
                ret == IF auth THEN AuthReturnedError(op, r.err, d, e)
                               ELSE MetricsReturnedError(r.err)
                finished == auth \/ ret # NoErr \/ Tail(pass[p].plan) = <<>>
                call == [op |-> op, obj |-> obj, key |-> key, err |-> r.err]
                rec == [pass[p] EXCEPT !.existing = upd.existing,
                                       !.calls = Append(@, call),
                                       !.plan = Tail(@),
                                       !.err = ret,
                                       !.pc = IF finished THEN "done" ELSE "applying"]
                ps == [pass EXCEPT ![p] = rec]
            IN /\ pass' = IF r.err = NoErr THEN Disturbed(ps, k, p) ELSE ps
               /\ store' = r.store
               /\ nextRV' = IF r.err = NoErr /\ op # "Delete" THEN nextRV + 1 ELSE nextRV
               /\ stable' = [stable EXCEPT ![k] =
                               IF r.err # NoErr THEN @
                               ELSE IF finished THEN Settle("no", rec) ELSE "no"]
  /\ UNCHANGED <<isvc, templateCache, fileReadable, reconciler>>

\* Remove with name and namespace mixed up
AuthRemoveParentKeySwapped(svc) == <<AuthConfigKind, IsvcNamespace, IsvcName>>

\* Remove: typeName := types.NamespacedName{Name: isvc.GetName(), Namespace: isvc.GetNamespace()}
AuthRemoveParentKey(svc) == <<AuthConfigKind, IsvcName, IsvcNamespace>>

\* KserveAuthConfigReconciler.Remove: one store removal keyed by the parent,
\* its error handed back as it is
AuthRemove(p) ==
  /\ reconciler = AuthConfigKind
  /\ pass[p].pc = "idle"
  /\ \E fail \in Fails :
       LET key == AuthRemoveParentKey(isvc)
           r == StoreRemove(store, key, fail)
           call == [op |-> "Delete", obj |-> NoRes, key |-> key, err |-> r.err]
       IN /\ pass' = [pass EXCEPT ![p] =
                        [IdlePass EXCEPT !.kind = AuthConfigKind, !.pc = "removed",
                                         !.calls = <<call>>, !.err = r.err,
                                         !.queued = pass[p].queued]]
          /\ store' = r.store
          /\ stable' = IF r.err = NoErr THEN [stable EXCEPT ![AuthConfigKind] = "no"]
                                        ELSE stable
  /\ UNCHANGED <<isvc, nextRV, templateCache, fileReadable, reconciler>>

\* the pass has returned (or crashed); the slot is free for the next pass,
\* which the orchestrator has queued when this one returned an error
Finish(p) ==
  /\ pass[p].pc \in {"done", "panicked", "removed"}
  /\ pass' = [pass EXCEPT ![p] = [IdlePass EXCEPT !.queued = StoreCallFailed(pass[p])]]
  /\ UNCHANGED <<isvc, store, nextRV, templateCache, fileReadable, reconciler, stable>>

(* --------------------------- the environment --------------------------- *)
\* another writer changes a stored resource; the store bumps its version
ExtMutate(key, what) ==
  /\ store[key].present
  /\ nextRV <= MaxRV
  /\ store' = [store EXCEPT ![key] =
                 IF what = "owned"
                   THEN [@ EXCEPT !.payload = ExtPayload,
                                  !.labels = @ \cup {ExtLabel}, !.rv = nextRV]
                   ELSE [@ EXCEPT !.other = 1, !.rv = nextRV]]
  /\ nextRV' = nextRV + 1
  /\ pass' = Disturbed(pass, key[1], 0)
  /\ stable' = [stable EXCEPT ![key[1]] = "no"]
  /\ UNCHANGED <<isvc, templateCache, fileReadable, reconciler>>

\* another writer deletes a stored resource
ExtDelete(key) ==
  /\ store[key].present
  /\ store' = [store EXCEPT ![key] = NoRes]
  /\ pass' = Disturbed(pass, key[1], 0)
  /\ stable' = [stable EXCEPT ![key[1]] = "no"]
  /\ UNCHANGED <<isvc, nextRV, templateCache, fileReadable, reconciler>>

\* the user edits the InferenceService, or its status URL is set
ParentUpdate(new) ==
  /\ ~isvc.deleted
  /\ new # isvc
  /\ isvc' = new
  /\ pass' = [q \in Passes |-> [pass[q] EXCEPT !.undist = FALSE, !.replay = "no"]]
  /\ stable' = [k \in DOMAIN stable |-> "no"]
  /\ UNCHANGED <<store, nextRV, templateCache, fileReadable, reconciler>>

\* the user deletes the InferenceService
ParentDelete ==
  /\ ~isvc.deleted
  /\ isvc' = [isvc EXCEPT !.deleted = TRUE]
  /\ pass' = [q \in Passes |-> [pass[q] EXCEPT !.undist = FALSE, !.replay = "no"]]
  /\ stable' = [k \in DOMAIN stable |-> "no"]
  /\ UNCHANGED <<store, nextRV, templateCache, fileReadable, reconciler>>

\* the store's ownership cascade: a resource whose owner reference names a
\* deleted InferenceService is collected
OwnerCascade(key) ==
  /\ isvc.deleted
  /\ store[key].present
  /\ store[key].owner
  /\ store' = [store EXCEPT ![key] = NoRes]
  /\ pass' = Disturbed(pass, key[1], 0)
  /\ stable' = [stable EXCEPT ![key[1]] = "no"]
  /\ UNCHANGED <<isvc, nextRV, templateCache, fileReadable, reconciler>>

Next ==
  \/ \E p \in Passes : AuthReconcileStart(p)
  \/ \E p \in Passes : MetricsReconcileStart(p)
  \/ \E p \in Passes : Fetch(p)
  \/ \E p \in Passes : ProcessDelta(p)
  \/ \E p \in Passes : Apply(p)
  \/ \E p \in Passes : Finish(p)
  \/ \E p \in Passes : AuthRemove(p)
  \/ \E key \in DOMAIN store, what \in {"owned", "other"} : ExtMutate(key, what)
  \/ \E key \in DOMAIN store : ExtDelete(key)
  \/ \E new \in ParentStates : ParentUpdate(new)
  \/ ParentDelete
  \/ \E key \in DOMAIN store : OwnerCascade(key)

Spec == Init /\ [][Next]_vars

(* ----------------- processDelta on every pair of inputs ---------------- *)
\* the desired resources the builders produce
BuiltDesired(k) ==
  IF k = AuthConfigKind
    THEN { AuthCreateDesiredResource(s, "ok", TRUE).res :
             s \in {ps \in ParentStates : ps.url # NoURL} }
    ELSE { MetricsCreateDesiredResource(s, [rt \in SupportedRuntimes |-> <<>>],
                                        TRUE, TRUE, TRUE).res :
             s \in {ps \in ParentStates : ps.runtime # "nil"} }

\* what the store may hold for them: as created, or changed by another writer
StoredVersions(k) ==
  { [d EXCEPT !.rv = 1] : d \in BuiltDesired(k) }
  \cup { [d EXCEPT !.rv = 1, !.other = 1] : d \in BuiltDesired(k) }
  \cup { [d EXCEPT !.rv = 1, !.payload = ExtPayload] : d \in BuiltDesired(k) }

\* processDelta is entered with any desired and any existing resource,
\* either of them possibly absent
InitDelta ==
  /\ isvc \in ParentStates
  /\ nextRV = 2
  /\ templateCache = [rt \in SupportedRuntimes |-> <<>>]
  /\ reconciler \in Kinds
  /\ fileReadable = TRUE
  /\ stable = [k \in Kinds |-> "no"]
  /\ \E d \in {NoRes} \cup BuiltDesired(reconciler),
        e \in {NoRes} \cup StoredVersions(reconciler) :
       /\ store = [key \in Keys |->
                     IF e.present /\ key = KeyOf(e) THEN e ELSE NoRes]
       /\ pass = [p \in {1} |->
                    [IdlePass EXCEPT !.kind = reconciler, !.pc = "fetched",
                                     !.desired = d, !.existing = e, !.fetched = e,
                                     !.fetchErr = IF e.present THEN NoErr
                                                  ELSE StoreErr("NotFound")]]

SpecDelta == InitDelta /\ [][Next]_vars

(* --------------------- KserveMonitoringReconciler ---------------------- *)
networkPolicyName == "allow-from-openshift-monitoring-ns"
userWorkloadMonitoringNS == "openshift-user-workload-monitoring"
PeerAuthKey == <<PeerAuthKind, "caikit" \o "-metrics", IsvcNamespace>>
NetworkPolicyKey == <<NetworkPolicyKind, networkPolicyName, IsvcNamespace>>
MonitoringKeys == {PeerAuthKey, NetworkPolicyKey}

\* buildDesiredPeerAuth: named <format>-metrics, selecting the predictor,
\* with the port-level mTLS of caikit
buildDesiredPeerAuth(supportedFormat, ns, isvcName) ==
  [present |-> TRUE, kind |-> PeerAuthKind,
   name |-> supportedFormat \o "-metrics", namespace |-> ns,
   payload |-> <<isvcName \o "predictor-default", "mtls:3",
                 IF supportedFormat = "caikit" THEN "8086:2" ELSE "">>,
   labels |-> {<<"opendatahub.io/managed", "true">>},
   rv |-> 0, owner |-> FALSE, other |-> 0]

\* reconcileNetWorkPolicy: the desiredNetWorkPolicy literal
desiredNetWorkPolicy(ns) ==
  [present |-> TRUE, kind |-> NetworkPolicyKind,
   name |-> networkPolicyName, namespace |-> ns,
   payload |-> <<userWorkloadMonitoringNS>>, labels |-> {},
   rv |-> 0, owner |-> FALSE, other |-> 0]

\* foundPeerAuth: not-found is (false, nil, nil)
foundPeerAuth(st, supportedFormat, ns, fail) ==
  LET r == ClientGet(st, <<PeerAuthKind, supportedFormat \o "-metrics", ns>>, fail)
  IN IF IsNotFound(r.err) THEN [exists |-> FALSE, obj |-> NoRes, err |-> NoErr, raw |-> r.err]
     ELSE IF r.err # NoErr THEN [exists |-> FALSE, obj |-> NoRes, err |-> r.err, raw |-> r.err]
     ELSE [exists |-> TRUE, obj |-> r.obj, err |-> NoErr, raw |-> r.err]

\* reflect.DeepEqual(x.ObjectMeta, y.ObjectMeta.Labels): a struct and a map
\* are of different types and never deeply equal
DeepEqualMetaAndLabels(x, y) == FALSE

\* arePeerAuthsEqual: the second operand of && is not evaluated when the
\* first is false
arePeerAuthsEqual(desiredPeerAuth, found) ==
  /\ DeepEqualMetaAndLabels(desiredPeerAuth, desiredPeerAuth)
  /\ desiredPeerAuth.payload[3] = found.payload[3]

\* areNetworkPoliciesEqual
areNetworkPoliciesEqual(networkPolicy, desired) ==
  /\ DeepEqualMetaAndLabels(networkPolicy, desired)
  /\ networkPolicy.payload = desired.payload

\* reconcilePeerAuthentication: if !peerAuthExists && (!arePeerAuthsEqual(desiredPeerAuth, foundPeerAuth))
PeerAuthNeedsCreate(peerAuthExists, desiredPeerAuth, found) ==
  ~peerAuthExists /\ ~arePeerAuthsEqual(desiredPeerAuth, found)

\* reconcilePeerAuthentication: the right operand of && is evaluated when
\* the left one is true; foundPeerAuth is nil when nothing was found
PeerAuthComparatorCalls(peerAuthExists, desiredPeerAuth, found) ==
  IF ~peerAuthExists
    THEN <<[fn |-> "arePeerAuthsEqual", nilDesired |-> ~desiredPeerAuth.present,
            nilExisting |-> ~found.present]>>
    ELSE <<>>

\* reconcileNetWorkPolicy: networkPolicy points to the object the Get was
\* given, empty when nothing was read into it
NetworkPolicyComparatorCalls(found) ==
  IF ~found
    THEN <<[fn |-> "areNetworkPoliciesEqual", nilDesired |-> FALSE, nilExisting |-> FALSE]>>
    ELSE <<>>

\* reconcileNetWorkPolicy: foundNetWorkPolicy is false after every outcome of the Get
foundNetWorkPolicy(err) == FALSE

\* reconcileNetWorkPolicy: if !foundNetWorkPolicy && (!areNetworkPoliciesEqual(networkPolicy, desiredNetWorkPolicy))
NetworkPolicyNeedsCreate(found, networkPolicy, desired) ==
  ~found /\ ~areNetworkPoliciesEqual(networkPolicy, desired)

\* what the monitoring reconciler decided after a comparison
Decision(create) ==
  [computed |-> TRUE, Added |-> create, Updated |-> FALSE, Removed |-> FALSE]

\* Reconcile going on when the InferenceService could not be read
FirstReadErrorNamespaceOnly(nsErr, isvcErr) == nsErr

\* Reconcile: the error of the Get of the Namespace, else that of the Get of
\* the InferenceService
FirstReadError(nsErr, isvcErr) == IF nsErr # NoErr THEN nsErr ELSE isvcErr

\* Reconcile: read the Namespace and the InferenceService, return on either
\* error; reconcilePeerAuthentication up to the built PeerAuthentication
MonitoringReconcileStart(p) ==
  /\ reconciler = MonitoringKind
  /\ pass[p].pc = "idle"
  /\ \E nsFail \in Fails, isvcFail \in Fails :
       LET isvcErr == IF isvcFail # NoErr THEN isvcFail
                      ELSE IF isvc.deleted THEN StoreErr("NotFound") ELSE NoErr
           base == [IdlePass EXCEPT !.kind = MonitoringKind, !.undist = TRUE,
                                    !.replay = IF \A k \in DOMAIN stable : stable[k] = "applied"
                                                 THEN "applied" ELSE "no",
                                    !.queued = pass[p].queued,
                                    !.gets = IF nsFail # NoErr THEN <<nsFail>>
                                             ELSE <<nsFail, isvcErr>>]
           readErr == FirstReadError(nsFail, isvcErr)
       IN pass' = [pass EXCEPT ![p] =
                     IF readErr # NoErr THEN [base EXCEPT !.pc = "done", !.err = readErr]
                     ELSE IF isvc.format = "caikit"
                       THEN [base EXCEPT !.pc = "pa-built",
                               !.desired = buildDesiredPeerAuth("caikit", IsvcNamespace, IsvcName)]
                     ELSE [base EXCEPT !.pc = "np-start"]]
  /\ UNCHANGED <<isvc, store, nextRV, templateCache, fileReadable, reconciler, stable>>

\* reconcilePeerAuthentication: look for the PeerAuthentication, return on a
\* read error, decide on the create
MonFetchPeerAuth(p) ==
  /\ pass[p].pc = "pa-built"
  /\ \E fail \in Fails :
       LET r == foundPeerAuth(store, "caikit", IsvcNamespace, fail)
           create == PeerAuthNeedsCreate(r.exists, pass[p].desired, r.obj)
       IN pass' = [pass EXCEPT ![p] =
                     IF r.err # NoErr
                       THEN [@ EXCEPT !.pc = "done", !.err = r.err, !.fetchErr = r.raw]
                     ELSE [@ EXCEPT !.pc = IF create THEN "pa-create" ELSE "np-start",
                                    !.existing = r.obj, !.fetched = r.obj,
                                    !.fetchErr = r.raw, !.delta = Decision(create),
                                    !.compared = PeerAuthComparatorCalls(r.exists, pass[p].desired, r.obj)]]
  /\ UNCHANGED <<isvc, store, nextRV, templateCache, fileReadable, reconciler, stable>>

\* createPeerAuth: build an istio client from KUBECONFIG and create the
\* PeerAuthentication; reconcilePeerAuthentication drops the error
MonCreatePeerAuth(p) ==
  /\ pass[p].pc = "pa-create"
  /\ nextRV <= MaxRV
  /\ \E clientOK \in BOOLEAN, fail \in Fails :
       IF ~clientOK
         THEN /\ pass' = [pass EXCEPT ![p] = [@ EXCEPT !.pc = "np-start"]]
              /\ UNCHANGED <<store, nextRV, stable>>
         ELSE LET r == ClientCreate(store, nextRV, pass[p].desired, fail)
                  call == [op |-> "Create", obj |-> pass[p].desired,
                           key |-> KeyOf(pass[p].desired), err |-> r.err]
              IN /\ pass' = [pass EXCEPT ![p] =
                               [@ EXCEPT !.pc = "np-start", !.calls = Append(@, call)]]
                 /\ store' = r.store
                 /\ nextRV' = IF r.err = NoErr THEN nextRV + 1 ELSE nextRV
                 /\ stable' = IF r.err = NoErr /\ pass[p].undist
                                THEN [stable EXCEPT ![PeerAuthKind] = "applied"]
                                ELSE stable
  /\ UNCHANGED <<isvc, templateCache, fileReadable, reconciler>>

\* reconcileNetWorkPolicy: read the NetworkPolicy; no outcome of the read
\* ends the pass
MonFetchNetworkPolicy(p) ==
  /\ pass[p].pc = "np-start"
  /\ \E fail \in Fails :
       LET r == ClientGet(store, NetworkPolicyKey, fail)
       IN pass' = [pass EXCEPT ![p] =
                     [@ EXCEPT !.pc = "np-fetched", !.desired = NoRes, !.delta = NoDelta,
                               !.existing = r.obj, !.fetched = r.obj, !.fetchErr = r.err]]
  /\ UNCHANGED <<isvc, store, nextRV, templateCache, fileReadable, reconciler, stable>>

\* reconcileNetWorkPolicy: build the desired NetworkPolicy, decide on the
\* create, create it and return the error of the Create
MonCreateNetworkPolicy(p) ==
  /\ pass[p].pc = "np-fetched"
  /\ nextRV <= MaxRV
  /\ \E fail \in Fails :
       LET desired == desiredNetWorkPolicy(IsvcNamespace)
           create == NetworkPolicyNeedsCreate(foundNetWorkPolicy(pass[p].fetchErr),
                                              pass[p].fetched, desired)
           r == IF create THEN ClientCreate(store, nextRV, desired, fail)
                          ELSE [err |-> NoErr, store |-> store]
           call == [op |-> "Create", obj |-> desired, key |-> KeyOf(desired), err |-> r.err]
       IN /\ pass' = [pass EXCEPT ![p] =
                        [@ EXCEPT !.pc = "done", !.desired = desired,
                                  !.delta = Decision(create), !.err = r.err,
                                  !.compared = @ \o NetworkPolicyComparatorCalls(
                                                     foundNetWorkPolicy(pass[p].fetchErr)),
                                  !.calls = IF create THEN Append(@, call) ELSE @]]
          /\ store' = r.store
          /\ nextRV' = IF create /\ r.err = NoErr THEN nextRV + 1 ELSE nextRV
          /\ stable' = IF create /\ r.err = NoErr /\ pass[p].undist
                         THEN [stable EXCEPT ![NetworkPolicyKind] = "applied"]
                         ELSE stable
  /\ UNCHANGED <<isvc, templateCache, fileReadable, reconciler>>

MonitoringSteps ==
  \/ \E p \in Passes : MonitoringReconcileStart(p)
  \/ \E p \in Passes : MonFetchPeerAuth(p)
  \/ \E p \in Passes : MonCreatePeerAuth(p)
  \/ \E p \in Passes : MonFetchNetworkPolicy(p)
  \/ \E p \in Passes : MonCreateNetworkPolicy(p)

\* a namespace that has neither monitoring resource yet
InitMonitoring ==
  /\ isvc \in ParentStates
  /\ store = [key \in MonitoringKeys |-> NoRes]
  /\ nextRV = 1
  /\ templateCache = [rt \in SupportedRuntimes |-> <<>>]
  /\ pass = [p \in {1} |-> IdlePass]
  /\ reconciler = MonitoringKind
  /\ fileReadable = TRUE
  /\ stable = [k \in {PeerAuthKind, NetworkPolicyKind} |-> "no"]

\* the three reconcilers, each in behaviours of its own
NextAll == Next \/ MonitoringSteps

\* Reconcile passes of the three reconcilers
SpecReconcile == (Init \/ InitMonitoring) /\ [][NextAll]_vars

\* the same with processDelta on every pair of inputs added
SpecAll == (Init \/ InitDelta \/ InitMonitoring) /\ [][NextAll]_vars

(* ------------------- passes that keep being triggered ------------------ *)
\* the creation of the InferenceService has queued the first monitoring pass
InitMonitoringLive ==
  /\ isvc \in ParentStates
  /\ store = [key \in MonitoringKeys |-> NoRes]
  /\ nextRV = 1
  /\ templateCache = [rt \in SupportedRuntimes |-> <<>>]
  /\ pass = [p \in {1} |-> [IdlePass EXCEPT !.queued = TRUE]]
  /\ reconciler = MonitoringKind
  /\ fileReadable = TRUE
  /\ stable = [k \in {PeerAuthKind, NetworkPolicyKind} |-> "no"]

\* the monitoring reconciler alone, no other writer
NextMonitoringLive ==
  \/ MonitoringSteps
  \/ \E p \in Passes : Finish(p)

\* the orchestrator runs the pass it has queued - the first one, and one
\* after every pass that returned an error - and runs each pass to its end;
\* a pass that returned nil is followed by another only if an event happens
\* to come.  A read or a Create that is tried again and again succeeds in
\* the end.
FairnessMonitoring ==
  \A p \in {1} :
    /\ WF_vars(Finish(p))
    /\ WF_vars(MonitoringReconcileStart(p) /\ pass[p].queued)
    /\ WF_vars(MonFetchPeerAuth(p))
    /\ WF_vars(MonCreatePeerAuth(p))
    /\ WF_vars(MonFetchNetworkPolicy(p))
    /\ WF_vars(MonCreateNetworkPolicy(p))
    /\ SF_vars(MonitoringReconcileStart(p) /\ pass[p].queued /\ pass'[p].pc # "done")
    /\ SF_vars(MonFetchPeerAuth(p) /\ pass'[p].pc # "done")
    /\ SF_vars(MonCreatePeerAuth(p) /\ store' # store)
    /\ SF_vars(MonCreateNetworkPolicy(p) /\ store' # store)

SpecMonitoringLive == InitMonitoringLive /\ [][NextMonitoringLive]_vars /\ FairnessMonitoring

\* an InferenceService with or without a resource deployed for it earlier
InitLive ==
  /\ isvc \in ParentStates
  /\ nextRV = 2
  /\ templateCache = [rt \in SupportedRuntimes |-> <<>>]
  /\ reconciler \in Kinds
  /\ fileReadable \in (IF reconciler = ConfigMapKind THEN BOOLEAN ELSE {TRUE})
  /\ stable = [k \in Kinds |-> "no"]
  /\ pass = [p \in {1} |-> IdlePass]
  /\ \E e \in {NoRes} \cup StoredVersions(reconciler) :
       store = [key \in Keys |-> IF e.present /\ key = KeyOf(e) THEN e ELSE NoRes]

\* the reconcilers, the deletion of the parent and the store's cascade; no
\* other writer
NextLive ==
  \/ \E p \in Passes : AuthReconcileStart(p)
  \/ \E p \in Passes : MetricsReconcileStart(p)
  \/ \E p \in Passes : Fetch(p)
  \/ \E p \in Passes : ProcessDelta(p)
  \/ \E p \in Passes : Apply(p)
  \/ \E p \in Passes : Finish(p)
  \/ ParentDelete
  \/ \E key \in DOMAIN store : OwnerCascade(key)

\* the orchestrator keeps triggering passes and runs each to its end (a
\* sub-resource pass that has not brought the store to the desired resource
\* returned an error or crashed, and is retried); an auxiliary lookup or
\* store call that is tried again and again succeeds in the end; the
\* store's cascade runs
Fairness ==
  /\ \A p \in {1} :
       /\ WF_vars(Finish(p))
       /\ WF_vars(ProcessDelta(p))
       /\ SF_vars(AuthReconcileStart(p) /\ pass'[p].pc = "built")
       /\ SF_vars(MetricsReconcileStart(p) /\ pass'[p].pc = "built")
       /\ SF_vars(Fetch(p) /\ pass'[p].pc = "fetched")
       /\ SF_vars(Apply(p) /\ pass'[p].calls # pass[p].calls
                           /\ pass'[p].calls[Len(pass'[p].calls)].err = NoErr)
  /\ WF_vars(\E key \in Keys : OwnerCascade(key))

SpecLive == InitLive /\ [][NextLive]_vars /\ Fairness

(* ----------------------- GetDeploymentModeForIsvc ---------------------- *)
DeploymentModeKind == "DeploymentMode"
Serverless == "Serverless"
RawDeployment == "RawDeployment"
ModelMesh == "ModelMesh"
inferenceServiceDeploymentModeAnnotation == "serving.kserve.io/deploymentMode"
KserveConfigMapName == "inferenceservice-config"
controllerNs == "opendatahub"
KserveConfigMapKey == <<ConfigMapKind, KserveConfigMapName, controllerNs>>

\* a value of the named string type IsvcDeploymentMode
IsvcDeploymentMode(v) == [type |-> "IsvcDeploymentMode", val |-> v]

\* the nil interface value
NilValue == [type |-> "nil", val |-> ""]

\* the annotations an InferenceService may carry
AnnotationSets ==
  {<<>>} \cup
  { [k \in {inferenceServiceDeploymentModeAnnotation} |-> v] :
      v \in {ModelMesh, Serverless, RawDeployment, "Knative"} }

\* JSON texts, as their tokens
Punct(c) == [t |-> c, v |-> ""]
Str(s) == [t |-> "string", v |-> s]
Num(s) == [t |-> "number", v |-> s]
Object(key, value) == <<Punct("{"), Str(key), Punct(":"), value, Punct("}")>>

\* what the deploy key of inferenceservice-config may hold; the empty text
\* is also what Data["deploy"] yields when the key is missing
DeployTexts ==
  { <<>>,
    <<Punct("{"), Punct("}")>>,
    Object("defaultDeploymentMode", Str(Serverless)),
    Object("defaultDeploymentMode", Str(RawDeployment)),
    Object("defaultDeploymentMode", Str(ModelMesh)),
    Object("defaultDeploymentMode", Num("1")),
    Object("other", Str(Serverless)),
    <<Punct("{"), Str("defaultDeploymentMode"), Punct(":")>> }

\* the inferenceservice-config ConfigMap with the given deploy text
KserveConfigMap(text) ==
  [present |-> TRUE, kind |-> ConfigMapKind,
   name |-> KserveConfigMapName, namespace |-> controllerNs,
   payload |-> text, labels |-> {}, rv |-> 1, owner |-> FALSE, other |-> 0]

\* json.Unmarshal into a map[string]interface{}: an object of at most one
\* member; a JSON string becomes a Go string, a number a float64
Unmarshal(text) ==
  LET n == Len(text)
      wellFormed ==
        /\ n \in {2, 5}
        /\ text[1] = Punct("{") /\ text[n] = Punct("}")
        /\ n = 5 => /\ text[2].t = "string"
                    /\ text[3] = Punct(":")
                    /\ text[4].t \in {"string", "number"}
  IN IF ~wellFormed THEN [err |-> StoreErr("Syntax"), data |-> <<>>]
     ELSE IF n = 2 THEN [err |-> NoErr, data |-> <<>>]
     ELSE [err |-> NoErr,
           data |-> [k \in {text[2].v} |->
                       [type |-> IF text[4].t = "string" THEN "string" ELSE "float64",
                        val |-> text[4].v]]]

\* deployData[key]: nil when the map has no such key
MapIndex(data, key) == IF key \in DOMAIN data THEN data[key] ELSE NilValue

\* x == y for an interface value x and a value y of a concrete type: equal
\* when the dynamic type of x is the type of y and the values are equal
InterfaceEquals(x, y) == x.type = y.type /\ x.val = y.val

\* GetOperatorNamespace: the trimmed content of the service-account
\* namespace file; an empty file yields "" without an error
GetOperatorNamespace(file) ==
  IF file = "unreadable" THEN [ns |-> "", err |-> StoreErr("ReadFile")]
  ELSE IF file = "empty" THEN [ns |-> "", err |-> NoErr]
  ELSE [ns |-> controllerNs, err |-> NoErr]

\* GetDeploymentModeForIsvc
GetDeploymentModeForIsvc(st, svc, file, fail) ==
  LET none == [mode |-> "", err |-> NoErr, read |-> FALSE, raw |-> NoErr, obj |-> NoRes]
      exists == inferenceServiceDeploymentModeAnnotation \in DOMAIN svc.annotations
      value == svc.annotations[inferenceServiceDeploymentModeAnnotation]
      ns == GetOperatorNamespace(file)
      r == ClientGet(st, <<ConfigMapKind, KserveConfigMapName, ns.ns>>, fail)
      u == Unmarshal(r.obj.payload)
      defaultDeploymentMode == MapIndex(u.data, "defaultDeploymentMode")
  IN IF exists
       THEN IF value \in {ModelMesh, Serverless, RawDeployment}
              THEN [none EXCEPT !.mode = value]
              ELSE none
     ELSE IF ns.err # NoErr
       THEN [none EXCEPT !.err = Wrapf(ns.err, "cannot determine controller namespace")]
     ELSE IF r.err # NoErr
       THEN [none EXCEPT !.err = Wrapf(r.err, "error getting configmap"),
                         !.read = TRUE, !.raw = r.err]
     ELSE IF u.err # NoErr
       THEN [none EXCEPT !.err = Wrapf(u.err, "error retrieving value for key 'deploy'"),
                         !.read = TRUE, !.obj = r.obj]
     ELSE [none EXCEPT !.mode = IF InterfaceEquals(defaultDeploymentMode,
                                                   IsvcDeploymentMode(Serverless))
                                  THEN Serverless ELSE RawDeployment,
                       !.read = TRUE, !.obj = r.obj]

\* one call of GetDeploymentModeForIsvc for the InferenceService
DeploymentModeCall(p) ==
  /\ reconciler = DeploymentModeKind
  /\ pass[p].pc = "idle"
  /\ \E file \in {"ok", "empty", "unreadable"}, fail \in Fails :
       LET r == GetDeploymentModeForIsvc(store, isvc, file, fail)
       IN pass' = [pass EXCEPT ![p] =
                     [IdlePass EXCEPT !.kind = DeploymentModeKind, !.pc = "done",
                                      !.mode = r.mode, !.err = r.err,
                                      !.read = r.read,
                                      !.fetched = r.obj, !.fetchErr = r.raw]]
  /\ UNCHANGED <<isvc, store, nextRV, templateCache, fileReadable, reconciler, stable>>

\* any InferenceService, with or without the annotation, and a cluster with
\* or without inferenceservice-config
InitDeploymentMode ==
  /\ \E base \in ParentStates, a \in AnnotationSets :
       isvc = [base EXCEPT !.annotations = a]
  /\ \E cm \in {NoRes} \cup {KserveConfigMap(text) : text \in DeployTexts} :
       store = [key \in {KserveConfigMapKey} |-> cm]
  /\ nextRV = 2
  /\ templateCache = [rt \in SupportedRuntimes |-> <<>>]
  /\ pass = [p \in {1} |-> IdlePass]
  /\ reconciler = DeploymentModeKind
  /\ fileReadable = TRUE
  /\ stable = [k \in {ConfigMapKind} |-> "no"]

NextDeploymentMode ==
  \/ \E p \in Passes : DeploymentModeCall(p)
  \/ \E p \in Passes : Finish(p)

SpecDeploymentMode == InitDeploymentMode /\ [][NextDeploymentMode]_vars

(* ------------------- two passes for the same parent -------------------- *)
\* the orchestrator runs two passes for the InferenceService at once
InitRace ==
  /\ isvc \in ParentStates
  /\ store = [key \in Keys |-> NoRes]
  /\ nextRV = 1
  /\ templateCache = [rt \in SupportedRuntimes |-> <<>>]
  /\ pass = [p \in {1, 2} |-> IdlePass]
  /\ reconciler \in Kinds
  /\ fileReadable \in (IF reconciler = ConfigMapKind THEN BOOLEAN ELSE {TRUE})
  /\ stable = [k \in Kinds |-> "no"]

\* the two passes and the user editing the InferenceService between them;
\* no other writer
NextRace ==
  \/ \E p \in Passes : AuthReconcileStart(p)
  \/ \E p \in Passes : MetricsReconcileStart(p)
  \/ \E p \in Passes : Fetch(p)
  \/ \E p \in Passes : ProcessDelta(p)
  \/ \E p \in Passes : Apply(p)
  \/ \E p \in Passes : Finish(p)
  \/ \E new \in ParentStates : ParentUpdate(new)

SpecRace == InitRace /\ [][NextRace]_vars

TypeOK ==
  /\ [isvc EXCEPT !.deleted = FALSE, !.annotations = <<>>] \in ParentStates
  /\ nextRV \in 1..(MaxRV + 1)
  /\ \A p \in Passes :
       pass[p].pc \in {"idle", "built", "fetched", "applying", "done", "panicked", "removed",
                        "pa-built", "pa-create", "np-start", "np-fetched"}

(* ------------------------------ properties ----------------------------- *)
\* the kinds a computed delta reports
KindsOf(delta) ==
  {x \in {"add", "update", "remove"} :
     \/ x = "add" /\ IsAdded(delta)
     \/ x = "update" /\ IsUpdated(delta)
     \/ x = "remove" /\ IsRemoved(delta)}

\* the last store call of a pass
LastCall(rec) == rec.calls[Len(rec.calls)]

\* C1: for every combination of desired presence, existing presence and
\* comparator result the delta is exactly the kind of the case table, so
\* HasChanges is false exactly for no-change and true with exactly one of
\* IsAdded, IsUpdated, IsRemoved.
C1_Totality ==
  \A p \in Passes :
    pass[p].delta.computed =>
      LET d == pass[p].desired
          e == pass[p].fetched
          ks == KindsOf(pass[p].delta)
      IN /\ (~d.present /\ ~e.present) => ks = {}
         /\ (d.present /\ ~e.present) => ks = {"add"}
         /\ (~d.present /\ e.present) => ks = {"remove"}
         /\ (d.present /\ e.present /\ Comparator(pass[p].kind, e, d)) => ks = {}
         /\ (d.present /\ e.present /\ ~Comparator(pass[p].kind, e, d)) => ks = {"update"}
         /\ HasChanges(pass[p].delta) <=> ks # {}
         /\ HasChanges(pass[p].delta) => Cardinality(ks) = 1

\* a delta was computed with both sides absent, and it reports no change
C1_Witness ==
  \E p \in Passes :
    /\ pass[p].delta.computed
    /\ ~pass[p].desired.present /\ ~pass[p].fetched.present
    /\ ~HasChanges(pass[p].delta)

\* C2: a pass that starts after an undisturbed pass returned nil, for the
\* same unchanged parent and with no other write to the store since, computes
\* a no-change delta and issues no Create, Update or Delete.
C2_Idempotence ==
  \A p \in Passes :
    pass[p].replay # "no" =>
      /\ pass[p].calls = <<>>
      /\ pass[p].pc # "applying"
      /\ pass[p].delta.computed => ~HasChanges(pass[p].delta)

\* the pass after one whose store call succeeded has returned nil on no-change
C2_Witness ==
  \E p \in Passes :
    /\ pass[p].replay = "applied"
    /\ pass[p].pc = "done"
    /\ pass[p].delta.computed
    /\ pass[p].err = NoErr

\* C3: when desired and existing are both present and the comparator reports
\* them equal, the pass issues no store mutation and returns nil.
C3_NoOpSafety ==
  \A p \in Passes :
    ( /\ pass[p].delta.computed
      /\ pass[p].desired.present /\ pass[p].fetched.present
      /\ Comparator(pass[p].kind, pass[p].fetched, pass[p].desired) ) =>
        /\ pass[p].calls = <<>>
        /\ pass[p].pc = "done"
        /\ pass[p].err = NoErr

\* a pass found an existing resource that another writer had touched outside
\* the owned fields, compared equal and returned
C3_Witness ==
  \E p \in Passes :
    /\ pass[p].delta.computed
    /\ pass[p].desired.present /\ pass[p].fetched.present
    /\ pass[p].fetched.other = 1
    /\ Comparator(pass[p].kind, pass[p].fetched, pass[p].desired)
    /\ pass[p].pc = "done"

\* C4: a pass issues at most one store mutation call, and exactly one once
\* it has returned from a delta with changes.
C4_OneCallPerPass ==
  \A p \in Passes :
    /\ Len(pass[p].calls) <= 1
    /\ (pass[p].pc = "done" /\ pass[p].delta.computed) =>
         (Len(pass[p].calls) = 1 <=> HasChanges(pass[p].delta))

\* a metrics pass returned after its single Update
C4_Witness ==
  \E p \in Passes :
    /\ pass[p].kind = ConfigMapKind
    /\ pass[p].pc = "done"
    /\ pass[p].delta.computed
    /\ IsUpdated(pass[p].delta)
    /\ Len(pass[p].calls) = 1
    /\ pass[p].calls[1].op = "Update"

\* C5 (state part): a not-found answer to the read of the existing resource
\* is not an error: the pass goes on to an add delta, and once it has
\* returned it has issued exactly one Create, carrying the built desired
\* resource, and nothing else.
C5_AddState ==
  \A p \in Passes :
    /\ (IsNotFound(pass[p].fetchErr) /\ pass[p].pc # "idle") =>
         /\ pass[p].pc \in {"fetched", "applying", "done"}
         /\ ~pass[p].fetched.present
         /\ pass[p].pc = "done" => pass[p].delta.computed
    /\ (pass[p].delta.computed /\ pass[p].desired.present /\ ~pass[p].fetched.present) =>
         /\ IsAdded(pass[p].delta)
         /\ pass[p].pc \in {"applying", "done"}
         /\ pass[p].pc = "done" =>
              /\ Len(pass[p].calls) = 1
              /\ pass[p].calls[1].op = "Create"
              /\ pass[p].calls[1].obj = pass[p].desired

\* C5 (step part): a Create that succeeds leaves the desired resource in the
\* store under the desired name and namespace.
C5_AddStep ==
  \A p \in Passes :
    ( /\ pass[p].pc = "applying"
      /\ Len(pass'[p].calls) = Len(pass[p].calls) + 1
      /\ LastCall(pass'[p]).op = "Create"
      /\ LastCall(pass'[p]).err = NoErr ) =>
        LET d == pass[p].desired
            k == <<d.kind, d.name, d.namespace>>
        IN /\ ~store[k].present
           /\ store'[k].present
           /\ store'[k].name = d.name /\ store'[k].namespace = d.namespace
           /\ store'[k].payload = d.payload /\ store'[k].labels = d.labels
           /\ store'[k].owner = d.owner

\* C5: the add scenario
C5_Add == []C5_AddState /\ [][C5_AddStep]_vars

\* a pass read not-found, created the desired resource and returned nil
C5_Witness ==
  \E p \in Passes :
    /\ pass[p].pc = "done"
    /\ IsNotFound(pass[p].fetchErr)
    /\ Len(pass[p].calls) = 1
    /\ pass[p].calls[1].op = "Create"
    /\ pass[p].calls[1].err = NoErr
    /\ pass[p].err = NoErr
    /\ store[KeyOf(pass[p].desired)].present

\* C6: when both sides are present and unequal the pass issues exactly one
\* Update; its object has the desired payload (Spec / Data) and labels, and
\* the resource version and every other field of the existing resource.
C6_Update ==
  \A p \in Passes :
    ( /\ pass[p].delta.computed
      /\ pass[p].desired.present /\ pass[p].fetched.present
      /\ ~Comparator(pass[p].kind, pass[p].fetched, pass[p].desired) ) =>
        /\ IsUpdated(pass[p].delta)
        /\ pass[p].pc \in {"applying", "done"}
        /\ pass[p].pc = "done" =>
             /\ Len(pass[p].calls) = 1
             /\ LET c == pass[p].calls[1]
                    e == pass[p].fetched
                    d == pass[p].desired
                IN /\ c.op = "Update"
                   /\ c.obj.payload = d.payload
                   /\ c.obj.labels = d.labels
                   /\ c.obj.rv = e.rv
                   /\ c.obj.other = e.other
                   /\ c.obj.owner = e.owner
                   /\ c.obj.name = e.name /\ c.obj.namespace = e.namespace
                   /\ c.obj.kind = e.kind

\* an Update went through on a resource another writer had changed both
\* inside and outside the owned fields
C6_Witness ==
  \E p \in Passes :
    /\ pass[p].pc = "done"
    /\ Len(pass[p].calls) = 1
    /\ pass[p].calls[1].op = "Update"
    /\ pass[p].calls[1].err = NoErr
    /\ pass[p].fetched.other = 1
    /\ pass[p].fetched.payload = ExtPayload
    /\ pass[p].calls[1].obj.other = 1
    /\ pass[p].calls[1].obj.payload = pass[p].desired.payload

\* C7 (state part): with the existing resource present and the desired one
\* absent the delta is remove and the pass issues exactly one Delete, keyed
\* by the existing resource's name and namespace.
C7_RemoveState ==
  \A p \in Passes :
    (pass[p].delta.computed /\ ~pass[p].desired.present /\ pass[p].fetched.present) =>
      /\ IsRemoved(pass[p].delta)
      /\ pass[p].pc \in {"applying", "done"}
      /\ pass[p].pc = "done" =>
           /\ Len(pass[p].calls) = 1
           /\ pass[p].calls[1].op = "Delete"
           /\ pass[p].calls[1].key =
                <<pass[p].kind, pass[p].fetched.name, pass[p].fetched.namespace>>

\* C7 (step part): a Delete that succeeds leaves the resource absent.
C7_RemoveStep ==
  \A p \in Passes :
    ( /\ pass[p].pc = "applying"
      /\ Len(pass'[p].calls) = Len(pass[p].calls) + 1
      /\ LastCall(pass'[p]).op = "Delete"
      /\ LastCall(pass'[p]).err = NoErr ) =>
        LET e == pass[p].fetched
            k == <<e.kind, e.name, e.namespace>>
        IN store[k].present /\ ~store'[k].present

\* C7: the remove scenario
C7_Remove == []C7_RemoveState /\ [][C7_RemoveStep]_vars

\* processDelta deleted the existing resource and returned nil
C7_Witness ==
  \E p \in Passes :
    /\ pass[p].pc = "done"
    /\ ~pass[p].desired.present /\ pass[p].fetched.present
    /\ Len(pass[p].calls) = 1
    /\ pass[p].calls[1].op = "Delete"
    /\ pass[p].calls[1].err = NoErr
    /\ pass[p].err = NoErr
    /\ ~store[KeyOf(pass[p].fetched)].present

\* a pass has returned after a store call that failed
ReturnedFromFailedCall(p) ==
  /\ pass[p].pc = "done"
  /\ pass[p].calls # <<>>
  /\ LastCall(pass[p]).err # NoErr

C9_RejectedUpdateStep ==
  \A p \in Passes :
    ( /\ pass[p].pc = "applying"
      /\ Len(pass'[p].calls) = Len(pass[p].calls) + 1
      /\ LastCall(pass'[p]).op = "Update"
      /\ LastCall(pass'[p]).err # NoErr ) =>
        /\ store' = store
        /\ pass'[p].pc = "done"
        /\ pass'[p].err # NoErr

\* C9 (state part): the existing object of a pass stays what the read
\* returned; the merge for the Update is done on a copy.
C9_ExistingNotMutated ==
  \A p \in Passes : pass[p].existing = pass[p].fetched

\* C9: a rejected Update leaves no trace
C9_RejectedUpdate == []C9_ExistingNotMutated /\ [][C9_RejectedUpdateStep]_vars

\* a metrics pass returned the conflict of its Update, and the store still
\* holds what the other writer wrote
C9_Witness ==
  \E p \in Passes :
    /\ ReturnedFromFailedCall(p)
    /\ pass[p].kind = ConfigMapKind
    /\ LastCall(pass[p]).op = "Update"
    /\ LastCall(pass[p]).err = StoreErr("Conflict")
    /\ pass[p].err # NoErr
    /\ store[MetricsExistingKey].present
    /\ store[MetricsExistingKey].rv # pass[p].fetched.rv

\* C10: when the read of the existing resource fails for a reason other
\* than not-found the pass returns that error, computes no delta and issues
\* no Create, Update or Delete.
C10_FetchErrorAborts ==
  \A p \in Passes :
    (pass[p].fetchErr # NoErr /\ ~IsNotFound(pass[p].fetchErr)) =>
      /\ pass[p].pc = "done"
      /\ pass[p].err = pass[p].fetchErr
      /\ ~pass[p].delta.computed
      /\ pass[p].calls = <<>>

\* a pass gave up on a failed read while the resource was in the store
C10_Witness ==
  \E p \in Passes :
    /\ pass[p].fetchErr = StoreErr("Transient")
    /\ pass[p].pc = "done"
    /\ pass[p].desired.present
    /\ store[KeyOf(pass[p].desired)].present

\* C13 (state part): Remove(parent) has issued exactly one store removal,
\* keyed by the parent's name and namespace, with no desired resource built
\* and no delta computed, and returns what the store answered.
C13_RemoveState ==
  \A p \in Passes :
    pass[p].pc = "removed" =>
      /\ Len(pass[p].calls) = 1
      /\ pass[p].calls[1].op = "Delete"
      /\ pass[p].calls[1].key = <<AuthConfigKind, IsvcName, IsvcNamespace>>
      /\ ~pass[p].desired.present
      /\ ~pass[p].delta.computed
      /\ pass[p].err = pass[p].calls[1].err

\* C13 (step part): when Remove(parent) returns nil the AuthConfig of the
\* parent has gone from the store, and when it returns an error the store
\* is as it was.
C13_RemoveStep ==
  \A p \in Passes :
    pass'[p].pc = "removed" /\ pass[p].pc = "idle" =>
      /\ pass'[p].err = NoErr =>
           /\ store[AuthExistingKey].present
           /\ ~store'[AuthExistingKey].present
           /\ \A k \in DOMAIN store \ {AuthExistingKey} : store'[k] = store[k]
      /\ pass'[p].err # NoErr => store' = store

\* C13: Remove(parent) of KserveAuthConfigReconciler
C13_Remove == []C13_RemoveState /\ [][C13_RemoveStep]_vars

\* Remove(parent) returned nil for a parent without URL, for which Reconcile
\* builds nothing, and the AuthConfig is gone
C13_Witness ==
  \E p \in Passes :
    /\ pass[p].pc = "removed"
    /\ pass[p].err = NoErr
    /\ isvc.url = NoURL
    /\ ~store[AuthExistingKey].present

\* C14: every Create a pass issues carries the owner reference to the
\* parent InferenceService; no Create is issued for a resource on which the
\* owner reference could not be set.
C14_OwnedOnCreate ==
  \A p \in Passes :
    \A i \in 1..Len(pass[p].calls) :
      pass[p].calls[i].op = "Create" => pass[p].calls[i].obj.owner

\* C16: an Update issued for a resource that another writer has changed
\* since the pass read it carries the resource version the pass read, is
\* rejected by the store, makes the pass return an error, and leaves what
\* the other writer wrote in the store.
C16_NoLostUpdateStep ==
  \A p \in Passes :
    ( /\ pass[p].pc = "applying"
      /\ Len(pass'[p].calls) = Len(pass[p].calls) + 1
      /\ LastCall(pass'[p]).op = "Update"
      /\ store[KeyOf(pass[p].fetched)].present
      /\ store[KeyOf(pass[p].fetched)].rv # pass[p].fetched.rv ) =>
        /\ LastCall(pass'[p]).obj.rv = pass[p].fetched.rv
        /\ LastCall(pass'[p]).err # NoErr
        /\ pass'[p].pc = "done"
        /\ pass'[p].err # NoErr
        /\ store' = store

C16_NoLostUpdate == [][C16_NoLostUpdateStep]_vars

\* an AuthConfig pass returned the conflict of its Update, and the store
\* holds the payload the other writer wrote after the pass had read
C16_Witness ==
  \E p \in Passes :
    /\ ReturnedFromFailedCall(p)
    /\ pass[p].kind = AuthConfigKind
    /\ LastCall(pass[p]).op = "Update"
    /\ LastCall(pass[p]).err = StoreErr("Conflict")
    /\ pass[p].fetched.payload # ExtPayload
    /\ store[AuthExistingKey].present
    /\ store[AuthExistingKey].payload = ExtPayload
    /\ store[AuthExistingKey].rv > pass[p].fetched.rv

\* the reconciler of this behaviour can build a desired resource for the parent
Buildable ==
  /\ ~isvc.deleted
  /\ reconciler = AuthConfigKind => isvc.url # NoURL
  /\ reconciler = ConfigMapKind => isvc.runtime # "nil"

\* what a pass that starts now builds when its lookups succeed
DesiredNow ==
  IF reconciler = AuthConfigKind
    THEN AuthCreateDesiredResource(isvc, "ok", TRUE).res
    ELSE MetricsCreateDesiredResource(isvc, templateCache, fileReadable, TRUE, TRUE).res

OwnedKey == IF reconciler = AuthConfigKind THEN AuthExistingKey ELSE MetricsExistingKey

\* the owned resource is in the store and the comparator reports it equal
\* to the desired one
Converged ==
  /\ Buildable
  /\ store[OwnedKey].present
  /\ Comparator(reconciler, store[OwnedKey], DesiredNow)

\* C15 (step part): once the owned resource equals the desired one, a pass
\* issues no store call and the store stays as it is.
C15_NoChangeStep ==
  Converged =>
    /\ store' = store
    /\ \A p \in Passes : pass'[p].calls \in {pass[p].calls, <<>>}

\* C15: after a pass that returned the error of a store call, with passes
\* being triggered for the unchanged parent and store calls succeeding in the
\* end, the owned resource comes to equal the desired one (unless the parent
\* is deleted first), and from then on every pass is no-change.
C15_Recovery ==
  /\ ((Buildable /\ \E p \in Passes : StoreCallFailed(pass[p])) ~> (Converged \/ isvc.deleted))
  /\ [][C15_NoChangeStep]_vars

\* the pass run after one that returned a store error has created the
\* desired resource and returned nil
C15_Witness ==
  \E p \in Passes :
    /\ pass[p].queued
    /\ pass[p].pc = "done"
    /\ pass[p].err = NoErr
    /\ Len(pass[p].calls) = 1
    /\ pass[p].calls[1].op = "Create"
    /\ Converged

\* a live InferenceService whose runtime image is one of tgis, ovms, vllm,
\* handled by the metrics reconciler
SupportedDeployed ==
  /\ reconciler = ConfigMapKind
  /\ ~isvc.deleted
  /\ isvc.runtime \in SupportedRuntimes

\* the ConfigMap <name>-metrics-dashboard is in the store with this data
DashboardHolds(data) ==
  /\ store[<<ConfigMapKind, IsvcName \o "-metrics-dashboard", IsvcNamespace>>].present
  /\ store[<<ConfigMapKind, IsvcName \o "-metrics-dashboard", IsvcNamespace>>].payload
       = <<"Data">> \o data

UnsupportedDeployed ==
  /\ reconciler = ConfigMapKind
  /\ ~isvc.deleted
  /\ isvc.runtime \notin SupportedRuntimes
  /\ isvc.runtime # "nil"

C19_DashboardGoneAfterDelete ==
  (reconciler = ConfigMapKind /\ isvc.deleted) ~> ~store[MetricsExistingKey].present

\* a pass had created the dashboard, the InferenceService was deleted, and
\* the dashboard is gone
C19_Witness ==
  \E p \in Passes :
    /\ pass[p].kind = ConfigMapKind
    /\ pass[p].pc = "done"
    /\ Len(pass[p].calls) = 1
    /\ pass[p].calls[1].op = "Create"
    /\ pass[p].calls[1].err = NoErr
    /\ isvc.deleted
    /\ ~store[MetricsExistingKey].present

\* the pass has read the existing resource (found or not, or with an error)
FetchDone(rec) == rec.fetchErr # NoErr \/ rec.fetched.present

\* C11 as stated (state part): in every pass the existing resource is read
\* only after the desired one has been built, and a pass whose build
\* returned an error has read nothing and issued no store call.
C11_BuildBeforeFetch ==
  \A p \in Passes :
    /\ FetchDone(pass[p]) => pass[p].desired.present
    /\ ( /\ pass[p].kind \in Kinds
         /\ pass[p].pc = "done"
         /\ ~pass[p].desired.present ) =>
           /\ ~FetchDone(pass[p])
           /\ pass[p].calls = <<>>
           /\ ~pass[p].delta.computed

\* C11 (step part): a Reconcile pass issues a store mutation only once the
\* desired resource is built, the existing one read and the two compared.
C11_CompareBeforeApply ==
  \A p \in Passes :
    ( /\ pass'[p].calls # pass[p].calls
      /\ pass'[p].calls # <<>>
      /\ pass'[p].pc # "removed" ) =>
        /\ pass'[p].delta.computed
        /\ pass'[p].desired.present
        /\ FetchDone(pass'[p])

C11_BuildBeforeFetchButNetworkPolicy ==
  \A p \in Passes :
    /\ (FetchDone(pass[p]) /\ pass[p].pc # "np-fetched") => pass[p].desired.present
    /\ pass[p].pc = "np-fetched" => (pass[p].kind = MonitoringKind /\ ~pass[p].desired.present)
    /\ ( /\ pass[p].kind \in Kinds
         /\ pass[p].pc = "done"
         /\ ~pass[p].desired.present ) =>
           /\ ~FetchDone(pass[p])
           /\ pass[p].calls = <<>>
           /\ ~pass[p].delta.computed

C12_EdgesStep ==
  \A p \in Passes :
    LET new == pass'[p].calls # pass[p].calls /\ pass'[p].calls # <<>>
    IN /\ (pass'[p].pc # pass[p].pc /\ ~new) => store' = store
       /\ new =>
            LET c == LastCall(pass'[p])
            IN /\ c.err # NoErr => store' = store
               /\ c.err = NoErr =>
                    /\ \A k \in DOMAIN store \ {c.key} : store'[k] = store[k]
                    /\ c.op = "Create" => ~store[c.key].present /\ store'[c.key].present
                    /\ c.op = "Update" => store[c.key].present /\ store'[c.key].present
                    /\ c.op = "Delete" => store[c.key].present /\ ~store'[c.key].present
               /\ pass[p].pc = "applying" =>
                    /\ c.op = "Create" => IsAdded(pass[p].delta)
                    /\ c.op = "Update" => IsUpdated(pass[p].delta)
                    /\ c.op = "Delete" => IsRemoved(pass[p].delta)

\* C12 (state part): a sub-resource pass whose delta is no-change issues no
\* store call.
C12_NoChangeState ==
  \A p \in Passes :
    (pass[p].kind \in Kinds /\ pass[p].delta.computed /\ ~HasChanges(pass[p].delta)) =>
      pass[p].calls = <<>>

C20_MonitoringResourcesCreated ==
  ( /\ reconciler = MonitoringKind
    /\ isvc.format = "caikit"
    /\ ~store[PeerAuthKey].present
    /\ ~store[NetworkPolicyKey].present ) ~>
  ( /\ store[<<PeerAuthKind, "caikit-metrics", IsvcNamespace>>].present
    /\ store[<<NetworkPolicyKind, "allow-from-openshift-monitoring-ns", IsvcNamespace>>].present )

\* the monitoring pass has decided about the PeerAuthentication it looked for
PeerAuthDecided(rec) ==
  /\ rec.kind = MonitoringKind
  /\ rec.pc \in {"pa-create", "np-start"}
  /\ rec.delta.computed

\* the monitoring pass has decided about the NetworkPolicy it read
NetworkPolicyDecided(rec) ==
  /\ rec.kind = MonitoringKind
  /\ rec.pc = "done"
  /\ rec.delta.computed
  /\ rec.desired.kind = NetworkPolicyKind

\* the owned fields of the existing resource differ from the desired ones
Differs(existing, desired) ==
  existing.payload # desired.payload \/ existing.labels # desired.labels

\* C21: a monitoring pass decides on a create for a missing PeerAuthentication
\* or NetworkPolicy, on an update for an existing one that differs from the
\* desired one, and deletes the PeerAuthentication when the InferenceService
\* no longer has the caikit format.
C21_ManagesCreateUpdateDelete ==
  \A p \in Passes :
    /\ (PeerAuthDecided(pass[p]) \/ NetworkPolicyDecided(pass[p])) =>
         /\ ~pass[p].fetched.present /\ pass[p].fetchErr = StoreErr("NotFound") =>
              pass[p].delta.Added
         /\ pass[p].fetched.present /\ Differs(pass[p].fetched, pass[p].desired) =>
              /\ pass[p].delta.Updated
              /\ pass[p].pc = "done" =>
                   \E i \in DOMAIN pass[p].calls : pass[p].calls[i].op = "Update"
    /\ ( /\ pass[p].kind = MonitoringKind
         /\ pass[p].pc = "done" /\ pass[p].err = NoErr /\ pass[p].undist
         /\ ~isvc.deleted /\ isvc.format # "caikit"
         /\ store[PeerAuthKey].present ) =>
           \E i \in DOMAIN pass[p].calls : pass[p].calls[i].op = "Delete"

\* the comparator the controllers use for the kind of r
EqualAsCompared(r, copy) ==
  IF r.kind = PeerAuthKind THEN arePeerAuthsEqual(r, copy)
  ELSE IF r.kind = NetworkPolicyKind THEN areNetworkPoliciesEqual(r, copy)
  ELSE Comparator(r.kind, r, copy)

\* C22: every resource value a pass has built or the store holds compares
\* equal to an identical copy of itself, under the comparator of its kind,
\* arePeerAuthsEqual and areNetworkPoliciesEqual included.
C22_Reflexive ==
  /\ \A key \in DOMAIN store :
       store[key].present => EqualAsCompared(store[key], store[key])
  /\ \A p \in Passes :
       pass[p].desired.present => EqualAsCompared(pass[p].desired, pass[p].desired)

\* C23: whenever a pass hands two resources to a comparator, neither the
\* desired nor the existing one is absent.
C23_ComparatorArgsPresent ==
  \A p \in Passes :
    \A i \in DOMAIN pass[p].compared :
      ~pass[p].compared[i].nilDesired /\ ~pass[p].compared[i].nilExisting

\* C24: a metrics pass never faults while it builds the desired ConfigMap,
\* whether or not the serving runtime of the InferenceService can be read:
\* it goes on with a desired resource or returns an error.
C24_BuildNeverFaults ==
  \A p \in Passes :
    (pass[p].kind = ConfigMapKind /\ ~pass[p].delta.computed) =>
      pass[p].pc # "panicked"

\* C25: a monitoring pass that runs after both the PeerAuthentication and the
\* NetworkPolicy were created, for the same unchanged InferenceService and
\* with no other write to either since, issues no Create and returns no error
\* (but that of a read the store failed).
C25_MonitoringIdempotence ==
  \A p \in Passes :
    (pass[p].kind = MonitoringKind /\ pass[p].replay = "applied") =>
      /\ pass[p].calls = <<>>
      /\ pass[p].err # NoErr => ~pass[p].delta.computed

\* C26: in a monitoring pass a read of the PeerAuthentication or of the
\* NetworkPolicy that fails for another reason than not-found ends the pass
\* with that error and without a Create, and a Create that fails ends the
\* pass with an error.
C26_MonitoringErrorsReturned ==
  \A p \in Passes :
    pass[p].kind = MonitoringKind =>
      /\ (pass[p].fetchErr # NoErr /\ ~IsNotFound(pass[p].fetchErr)) =>
           /\ pass[p].pc = "done"
           /\ pass[p].err = pass[p].fetchErr
           /\ pass[p].desired.present => pass[p].calls = <<>>
           /\ \A i \in DOMAIN pass[p].calls : pass[p].calls[i].key # NetworkPolicyKey
      /\ (pass[p].pc = "done" /\ \E i \in DOMAIN pass[p].calls : pass[p].calls[i].err # NoErr) =>
           pass[p].err # NoErr

\* C27: a Reconcile of KserveAuthConfigReconciler for an InferenceService
\* whose URL is not set returns nil at once: it builds no desired resource,
\* reads nothing, issues no store call and leaves the store as it is.
C27_NoURLStep ==
  \A p \in Passes :
    ( /\ pass[p].pc = "idle"
      /\ pass'[p].kind = AuthConfigKind
      /\ pass'[p].pc \notin {"idle", "removed"}
      /\ isvc.url = NoURL ) =>
        /\ pass'[p].pc = "done"
        /\ pass'[p].err = NoErr
        /\ ~pass'[p].desired.present
        /\ ~pass'[p].fetched.present /\ pass'[p].fetchErr = NoErr
        /\ ~pass'[p].delta.computed
        /\ pass'[p].calls = <<>>
        /\ store' = store

C27_NoURLReturnsNil == [][C27_NoURLStep]_vars

\* a pass has returned for an InferenceService without URL while an
\* AuthConfig deployed for it earlier is in the store
C27_Witness ==
  \E p \in Passes :
    /\ pass[p].kind = AuthConfigKind
    /\ pass[p].pc = "done" /\ pass[p].undist
    /\ isvc.url = NoURL
    /\ ~pass[p].desired.present /\ pass[p].err = NoErr
    /\ store[AuthExistingKey].present

\* the defaultDeploymentMode the stored inferenceservice-config names, ""
\* when it names none as a string
ConfiguredDefault ==
  LET cm == store[KserveConfigMapKey]
      v == MapIndex(Unmarshal(cm.payload).data, "defaultDeploymentMode")
  IN IF v.type = "string" THEN v.val ELSE ""

\* inferenceservice-config is there and its deploy text is JSON
ConfigReadable ==
  /\ store[KserveConfigMapKey].present
  /\ Unmarshal(store[KserveConfigMapKey].payload).err = NoErr

\* C28: with the deploymentMode annotation set to ModelMesh, Serverless or
\* RawDeployment, GetDeploymentModeForIsvc returns that mode and reads nothing
\* from the store; without the annotation it returns Serverless when the
\* deploy text of inferenceservice-config has defaultDeploymentMode
\* "Serverless" and RawDeployment otherwise, and an error with an empty mode
\* when the namespace, the ConfigMap or the deploy JSON cannot be read.
C28_DeploymentMode ==
  \A p \in Passes :
    (pass[p].kind = DeploymentModeKind /\ pass[p].pc = "done") =>
      LET exists == inferenceServiceDeploymentModeAnnotation \in DOMAIN isvc.annotations
          value == isvc.annotations[inferenceServiceDeploymentModeAnnotation]
      IN /\ (exists /\ value \in {ModelMesh, Serverless, RawDeployment}) =>
              /\ pass[p].mode = value
              /\ pass[p].err = NoErr
              /\ ~pass[p].read
         /\ ~exists =>
              /\ pass[p].err = NoErr =>
                   /\ ConfigReadable
                   /\ pass[p].mode = IF ConfiguredDefault = Serverless
                                       THEN Serverless ELSE RawDeployment
              /\ pass[p].err # NoErr => pass[p].mode = ""
              /\ ~ConfigReadable => pass[p].err # NoErr

\* C29, in every state: a Reconcile pass of the AuthConfig or metrics
\* reconciler that has computed its delta has a desired resource, its delta
\* is not a removal and none of its store calls is a Delete.
C29_NoRemoveState ==
  \A p \in Passes :
    (pass[p].kind \in Kinds /\ pass[p].pc # "removed") =>
      /\ pass[p].delta.computed =>
           /\ pass[p].desired.present
           /\ ~IsRemoved(pass[p].delta)
      /\ \A i \in DOMAIN pass[p].calls : pass[p].calls[i].op # "Delete"

\* C29, in every step: no step of a Reconcile pass takes a resource out of
\* the store; that is left to Remove, the ownership cascade and other actors.
C29_NoRemoveStep ==
  \A p \in Passes :
    (pass'[p].pc # pass[p].pc /\ pass'[p].pc # "removed") =>
      \A key \in DOMAIN store : store[key].present => store'[key].present

C29_ReconcileNeverDeletes == []C29_NoRemoveState /\ [][C29_NoRemoveStep]_vars

\* a pass found the owned resource differing from the desired one and ended
\* with an Update of it
C29_Witness ==
  \E p \in Passes :
    /\ pass[p].kind \in Kinds
    /\ pass[p].pc = "done"
    /\ pass[p].delta.computed /\ IsUpdated(pass[p].delta)
    /\ pass[p].fetched.present /\ pass[p].desired.present
    /\ pass[p].calls # <<>> /\ LastCall(pass[p]).op = "Update"
    /\ store[KeyOf(pass[p].desired)].present

\* the key under which the pass looks for the existing resource
FetchKeyOf(rec) ==
  IF rec.kind = AuthConfigKind THEN AuthExistingKey
  ELSE IF rec.kind = ConfigMapKind THEN MetricsExistingKey
  ELSE IF rec.desired.present /\ rec.desired.kind = PeerAuthKind THEN PeerAuthKey
  ELSE NetworkPolicyKey

\* C30: in every pass the desired resource is named by the key the pass
\* fetches under - the name and namespace of the InferenceService, its name
\* with -metrics-dashboard, the format with -metrics - whatever else the
\* InferenceService, the store or the pass hold; so what the pass fetched is
\* the resource of that name, and the pass after one that wrote the resource
\* finds it unless the read itself fails.
C30_DeterministicKey ==
  \A p \in Passes :
    pass[p].kind \in Kinds \cup {MonitoringKind} =>
      /\ pass[p].desired.present => KeyOf(pass[p].desired) = FetchKeyOf(pass[p])
      /\ (pass[p].desired.present /\ pass[p].fetched.present) =>
           KeyOf(pass[p].fetched) = KeyOf(pass[p].desired)
      /\ ( /\ pass[p].replay = "applied"
           /\ pass[p].delta.computed
           /\ pass[p].fetchErr # StoreErr("Transient") ) =>
             pass[p].fetched.present

\* the pass after one that created the resource has fetched it
C30_Witness ==
  \E p \in Passes :
    /\ pass[p].kind \in Kinds \cup {MonitoringKind}
    /\ pass[p].replay = "applied"
    /\ pass[p].delta.computed
    /\ pass[p].desired.present /\ pass[p].fetched.present
    /\ KeyOf(pass[p].fetched) = KeyOf(pass[p].desired)
    /\ pass[p].fetched.rv > 0

\* the pass read the owned resource as absent and went on to its Create
CreatedFromAbsent(rec) ==
  /\ rec.kind \in Kinds
  /\ rec.delta.computed
  /\ ~rec.fetched.present
  /\ rec.calls # <<>>
  /\ rec.calls[1].op = "Create"

\* C31, in every state: of two passes for the same parent that both read
\* the owned resource as absent at most one has a Create that succeeded; a
\* pass whose Create did not succeed returns an error; the store holds no
\* resource of the parent but the one under the owned key.
C31_RaceState ==
  /\ \A p \in Passes : \A q \in Passes \ {p} :
       (CreatedFromAbsent(pass[p]) /\ CreatedFromAbsent(pass[q])) =>
         ~(pass[p].calls[1].err = NoErr /\ pass[q].calls[1].err = NoErr)
  /\ \A p \in Passes :
       (CreatedFromAbsent(pass[p]) /\ pass[p].calls[1].err # NoErr) =>
         pass[p].pc = "done" /\ pass[p].err # NoErr
  /\ \A key \in DOMAIN store : store[key].present => key = OwnedKey

\* C31, in every step: a store call of a pass that read the owned resource
\* as absent, made when the resource is there, leaves the store as it is.
C31_RaceStep ==
  \A p \in Passes :
    ( /\ Len(pass'[p].calls) > Len(pass[p].calls)
      /\ ~pass[p].fetched.present
      /\ store[OwnedKey].present ) =>
        /\ store' = store
        /\ LastCall(pass'[p]).err # NoErr

C31_RaceSafe == []C31_RaceState /\ [][C31_RaceStep]_vars

\* both passes read the resource as absent, one Create succeeded and the
\* other was rejected
C31_Witness ==
  \E p \in Passes : \E q \in Passes \ {p} :
    /\ CreatedFromAbsent(pass[p]) /\ CreatedFromAbsent(pass[q])
    /\ pass[p].calls[1].err = NoErr
    /\ pass[q].calls[1].err = StoreErr("AlreadyExists")
    /\ pass[q].pc = "done" /\ pass[q].err # NoErr
    /\ store[OwnedKey].present
    /\ store[OwnedKey].payload = pass[p].desired.payload
    /\ pass[q].desired.payload # pass[p].desired.payload

\* one of the two reads a monitoring pass starts with has failed
StartReadFailed(rec) == \E i \in DOMAIN rec.gets : rec.gets[i] # NoErr

\* C32, in every state: a monitoring pass that has issued a Create has read
\* the Namespace and the InferenceService without error; a pass one of whose
\* two reads failed (the InferenceService not being found included) has
\* returned that error without a store call; no call for the NetworkPolicy
\* comes before one for the PeerAuthentication.
C32_ReadsState ==
  \A p \in Passes :
    pass[p].kind = MonitoringKind =>
      /\ pass[p].calls # <<>> => pass[p].gets = <<NoErr, NoErr>>
      /\ StartReadFailed(pass[p]) =>
           /\ pass[p].pc = "done"
           /\ pass[p].err = pass[p].gets[Len(pass[p].gets)]
           /\ pass[p].calls = <<>>
      /\ \A i \in DOMAIN pass[p].calls : \A j \in DOMAIN pass[p].calls :
           (pass[p].calls[i].key = NetworkPolicyKey /\ pass[p].calls[j].key = PeerAuthKey)
             => j < i

\* C32, in every step: the step of a pass whose reads failed leaves the
\* store as it is; the PeerAuthentication is looked for and created only
\* before the NetworkPolicy is read, and for a caikit InferenceService the
\* NetworkPolicy is read only after the PeerAuthentication was dealt with.
C32_ReadsStep ==
  \A p \in Passes :
    (pass'[p].kind = MonitoringKind /\ pass'[p].pc # pass[p].pc) =>
      /\ StartReadFailed(pass'[p]) => store' = store
      /\ pass'[p].pc = "pa-built" => pass[p].pc = "idle"
      /\ pass'[p].pc = "pa-create" => pass[p].pc = "pa-built"
      /\ pass'[p].pc = "np-start" =>
           \/ pass[p].pc = "idle" /\ isvc.format # "caikit"
           \/ pass[p].pc \in {"pa-built", "pa-create"}
      /\ pass'[p].pc = "np-fetched" => pass[p].pc = "np-start"

C32_ReadsBeforeCreates == []C32_ReadsState /\ [][C32_ReadsStep]_vars

\* a pass for an InferenceService that is gone has returned not-found
\* without a store call, and another has created both resources in order
C32_Witness ==
  \E p \in Passes :
    /\ pass[p].kind = MonitoringKind
    /\ pass[p].pc = "done"
    /\ pass[p].gets = <<NoErr, StoreErr("NotFound")>>
    /\ pass[p].err = StoreErr("NotFound")
    /\ pass[p].calls = <<>>
    /\ store[PeerAuthKey].present /\ store[NetworkPolicyKey].present

====
